---- MODULE Spec2Model ----
(***************************************************************************)
(* Model of the crawl-and-extraction pipeline of src/scraper.py:           *)
(* EUConsultationScraper.get_initiative_urls (listing walker),             *)
(* scrape_consultation / extract_consultation_data (initiative extractor   *)
(* and download-link pass) and scrape_all_consultations (orchestrator).    *)
(*                                                                         *)
(* Strings the code inspects are sequences of characters.  Two long        *)
(* literals are written as one character each: "H" is the host prefix      *)
(* "https://ec.europa.eu" and "I" is the word "initiatives"; neither       *)
(* contains "/", "?", "_" or a digit, which is all the code looks at.      *)
(* An Optional value is <<>> (None) or <<v>>.  The page capability is the  *)
(* environment: every awaited page operation either returns a value drawn  *)
(* from a small set or raises an exception whose text is drawn from        *)
(* Messages.  scrape_timestamp (wall clock) is left out of the record.     *)
(***************************************************************************)
EXTENDS Naturals, Sequences, FiniteSets

VARIABLES pc, initiative_urls, page_num, cardsLeft, full_url, card, next_button,
          site_page, listing_len, idx, data, results,
          exc, main_error, sections, filesLeft, captured_urls, warned,
          site, entry, last_request, listeners, h4_texts

vars == <<pc, initiative_urls, page_num, cardsLeft, full_url, card, next_button,
          site_page, listing_len, idx, data, results,
          exc, main_error, sections, filesLeft, captured_urls, warned,
          site, entry, last_request, listeners, h4_texts>>

\* ------------------------------------------------------------------ bounds
MaxPages == 2
MaxVisits == 3
MaxCards == 2
MaxAnchors == 2
MaxH4 == 2
MaxFiles == 1
MaxDocFiles == 3
MaxReq == 2
MaxSuffix == 4

\* ------------------------------------------------------------- Optional
None == <<>>
Some(v) == <<v>>

\* ------------------------------------------------------- string helpers
Min(S) == CHOOSE x \in S : \A y \in S : x <= y

StartsWith(s, p) == Len(s) >= Len(p) /\ SubSeq(s, 1, Len(p)) = p

EndsWith(s, p) == Len(s) >= Len(p) /\ SubSeq(s, Len(s) - Len(p) + 1, Len(s)) = p

Contains(s, p) == \E i \in 1..Len(s) : i + Len(p) - 1 <= Len(s) /\ SubSeq(s, i, i + Len(p) - 1) = p

\* str.split(c)[0]: the part before the first c (the whole string if none)
SplitFirst(s, c) ==
    LET at == {i \in 1..Len(s) : s[i] = c}
    IN  IF at = {} THEN s ELSE SubSeq(s, 1, Min(at) - 1)

\* str.rstrip(c)
RECURSIVE RStrip(_, _)
RStrip(s, c) == IF s # <<>> /\ s[Len(s)] = c THEN RStrip(SubSeq(s, 1, Len(s) - 1), c) ELSE s

RECURSIVE LStrip(_, _)
LStrip(s, c) == IF s # <<>> /\ s[1] = c THEN LStrip(Tail(s), c) ELSE s

\* str.strip() on texts whose only whitespace character is " "
Strip(s) == LStrip(RStrip(s, " "), " ")

Digits == {"1", "2", "4"}

\* the longest run of digits of s starting at position i
RECURSIVE DigitRun(_, _)
DigitRun(s, i) == IF i <= Len(s) /\ s[i] \in Digits THEN <<s[i]>> \o DigitRun(s, i + 1) ELSE <<>>

\* -------------------------------------------------------------- the site
Host == <<"H">>
InitiativesPath == <<"/", "I", "/">>

\* hrefs of anchors found in the result cards
AnchorHrefs == { <<"/", "I", "/", "1", "_", "e", "n">>,
                 <<"H", "/", "I", "/", "1", "_", "e", "n", "?", "q">>,
                 <<"/", "I", "/", "a", "_", "e", "n">>,
                 <<"/", "a", "_", "e", "n">> }

\* line 121: the anchors matching a[href*="/initiatives/"]
Hrefs == {h \in AnchorHrefs : Contains(h, InitiativesPath)}

\* texts of exceptions a page operation raises (str(e)); an exception
\* constructed without arguments has the empty text
Messages == {"", "Timeout"}

SeqsUpTo(S, n) == UNION {[1..k -> S] : k \in 0..n}

\* a result card: the matching anchors it holds, in document order
Cards == SeqsUpTo(Hrefs, MaxAnchors)

\* what the site under crawl serves: the listing-rich site varies the cards
\* and the fields of the consultation pages and shows few files; the
\* document-rich site lists one initiative whose consultation page has no
\* field to read and shows more files and download endpoints
OnSite(listing, documents) == IF site = "listing" THEN listing ELSE documents

\* the cards of the site's listing pages
SiteCards ==
    OnSite(Cards, SeqsUpTo({h \in Hrefs : \E i \in 1..Len(h) : h[i] \in Digits}, MaxAnchors))

\* the next-page control: absent, or present with its disabled attribute
NextControls == { [present |-> FALSE, disabled |-> None],
                  [present |-> TRUE, disabled |-> None],
                  [present |-> TRUE, disabled |-> Some("")],
                  [present |-> TRUE, disabled |-> Some("disabled")] }

\* ------------------------------------------------------ wait_for_page_load
\* idle, dom: the outcome (None = completed, Some(e) = raised e) of the two
\* wait_for_load_state calls; the first one's exception is swallowed
WaitForPageLoad(idle, dom) == IF idle = None THEN None ELSE dom

\* page.goto(...) followed by wait_for_page_load(page)
GotoAndWait(goto, idle, dom) == IF goto # None THEN goto ELSE WaitForPageLoad(idle, dom)

Outcomes == {None} \cup {Some(m) : m \in Messages}

\* the outcomes of goto + wait_for_page_load over all behaviours of the page
LoadOutcomes == {GotoAndWait(g, i, d) : g \in Outcomes, i \in Outcomes, d \in Outcomes}

\* ---------------------------------------------------------- listing walker
\* lines 126-132: make absolute, strip the query string
Normalize(href) ==
    LET absolute == IF StartsWith(href, <<"/">>) THEN Host \o href ELSE href
    IN  SplitFirst(absolute, "?")

Range(s) == {s[i] : i \in 1..Len(s)}

\* AddUrl without the membership test of line 133
AddUrlAlways(acc, url) == Append(acc, url)

\* lines 133-134
AddUrl(acc, url) == IF url \in Range(acc) THEN acc ELSE Append(acc, url)

\* lines 121-134 for one card: card.query_selector returns the first match;
\* last is the value the local full_url had before
CardStep(acc, last, anchors) ==
    IF anchors = <<>>
    THEN [urls |-> acc, full_url |-> last]
    ELSE [urls |-> AddUrl(acc, Normalize(anchors[1])),
          full_url |-> Some(Normalize(anchors[1]))]

\* WalkerExcept re-raising what it caught
WalkerExceptReraise(acc) == [raised |-> TRUE, urls |-> acc]

\* lines 155-158: the walker's handler logs and falls through to the return
WalkerExcept(acc) == [raised |-> FALSE, urls |-> acc]

\* line 141: "if is_disabled" (a None or empty attribute value is falsy)
IsDisabled(ctl) == ctl.disabled # None /\ ctl.disabled # Some("")

\* ------------------------------------------------------------ the record
\* lines 164-181 (ConsultationData with its defaults)
NewRecord(url) ==
    [ initiative_id |-> <<>>, initiative_name |-> <<>>, initiative_url |-> url,
      consultation_url |-> <<>>, topic |-> None, consultation_period |-> None,
      total_feedback |-> None,
      has_summary_report |-> FALSE, summary_report_url |-> None,
      has_contributions_zip |-> FALSE, contributions_zip_url |-> None,
      has_documents_annexed |-> FALSE, documents_annexed_url |-> None,
      scrape_status |-> "pending", error_message |-> None ]

\* the value of data while no extraction is in progress
NoData == NewRecord(<<>>)

NoSections == [summary |-> FALSE, contributions |-> FALSE]

\* an exception raised at operation at with text e[1]
Raised(at, e) == Some([at |-> at, msg |-> e[1]])

\* the locals of one iteration of the file loop (lines 305-340): how the
\* iteration ended, the title read (line 309), the url read from the log
\* (line 321), the url that the field written held before and whether a
\* matching request was observed while the iteration ran; they are kept in
\* the state for the document-rich site only
NoEntry ==
    [outcome |-> "none", title |-> None, latest_url |-> None, replaced |-> None,
     observed |-> FALSE]

\* what no call has touched yet: the walker's and the document pass's
\* locals, the results and the exceptions caught
Untouched ==
    /\ entry = NoEntry
    /\ last_request = None
    /\ listeners = 0
    /\ page_num = 0
    /\ cardsLeft = 0
    /\ full_url = None
    /\ card = None
    /\ next_button = None
    /\ site_page = 0
    /\ listing_len = 0
    /\ results = <<>>
    /\ exc = None
    /\ main_error = None
    /\ sections = NoSections
    /\ filesLeft = 0
    /\ captured_urls = <<>>
    /\ warned = None

\* the crawl of the site s is about to begin; the texts of a page are not
\* fixed in advance (h4_texts = None), the site chooses them when read
Start(s) ==
    /\ Untouched
    /\ site = s
    /\ pc = "open"
    /\ initiative_urls = <<>>
    /\ idx = 0
    /\ data = NoData
    /\ h4_texts = None

\* scrape_consultation, entered for the single URL of the record d, stands
\* at the operation p; h are the h4 texts of the consultation page
Entered(p, d, h) ==
    /\ Untouched
    /\ site = "listing"
    /\ pc = p
    /\ initiative_urls = <<d.initiative_url>>
    /\ idx = 1
    /\ data = d
    /\ h4_texts = h

\* the state after construction, before the crawl of the listing-rich site
Init == Start("listing")

\* the same before the crawl of the document-rich site
InitDocs == Start("documents")

\* ------------------------------------------------- listing walker actions
\* an exception e reaches the walker's try block (lines 102, 155-158); were
\* the walker to raise, the orchestrator's handler (lines 91-92) would catch
WalkerFail(at, e) ==
    LET h == WalkerExcept(initiative_urls)
    IN  /\ exc' = Raised(at, e)
        /\ initiative_urls' = h.urls
        /\ IF h.raised
           THEN main_error' = e /\ pc' = "closing"
           ELSE main_error' = main_error /\ pc' = "loop"
        /\ page_num' = 0
        /\ cardsLeft' = 0
        /\ full_url' = None
        /\ card' = None
        /\ next_button' = None
        /\ site_page' = 0
        /\ listing_len' = 0
        /\ UNCHANGED <<idx, data, results, site, h4_texts, listeners, sections, filesLeft, entry, last_request, captured_urls, warned>>

\* a break out of the pagination loop (lines 142, 151, 153) and line 158
WalkerReturn(e) ==
    /\ exc' = e
    /\ pc' = "loop"
    /\ page_num' = 0
    /\ cardsLeft' = 0
    /\ full_url' = None
    /\ card' = None
    /\ next_button' = None
    /\ site_page' = 0
    /\ listing_len' = 0
    /\ UNCHANGED <<initiative_urls, idx, data, results, site, h4_texts, listeners, main_error, sections,
                   filesLeft, entry, last_request, captured_urls, warned>>

\* lines 100-111: load the search page and wait for the first cards; the
\* listing the site serves is a chain of listing_len pages
WalkerOpen ==
    /\ pc = "open"
    /\ \E load \in LoadOutcomes, sel \in Outcomes :
         LET r == IF load # None THEN load ELSE sel
         IN  IF r # None
             THEN WalkerFail("open", r)
             ELSE /\ pc' = "listing"
                  /\ page_num' = 1
                  /\ site_page' = 1
                  /\ \E n \in 1..MaxPages : listing_len' = n
                  /\ UNCHANGED <<initiative_urls, cardsLeft, full_url, card, next_button,
                                 idx, data, results, site, h4_texts, listeners, exc,
                                 main_error, sections, filesLeft, entry, last_request, captured_urls, warned>>

\* lines 113-118: query the cards of the current listing page
WalkerQueryCards ==
    /\ pc = "listing"
    /\ \/ \E e \in Outcomes \ {None} : WalkerFail("cards", e)
       \/ \E n \in 0..MaxCards :
            /\ cardsLeft' = n
            /\ pc' = "cards"
            /\ UNCHANGED <<initiative_urls, page_num, full_url, card, next_button,
                           site_page, listing_len, idx, data, results, site, h4_texts, listeners, exc,
                           main_error, sections, filesLeft, entry, last_request, captured_urls, warned>>

\* lines 120-134: one iteration of the loop over the cards
WalkerCard ==
    /\ pc = "cards"
    /\ cardsLeft > 0
    /\ \/ \E e \in Outcomes \ {None} : WalkerFail("anchor", e)
       \/ \E c \in SiteCards :
            LET r == CardStep(initiative_urls, full_url, c)
            IN  /\ initiative_urls' = r.urls
                /\ full_url' = r.full_url
                /\ card' = Some(c)
                /\ cardsLeft' = cardsLeft - 1
                /\ UNCHANGED <<pc, page_num, next_button, site_page, listing_len, idx,
                               data, results, site, h4_texts, listeners, exc, main_error,
                               sections, filesLeft, entry, last_request, captured_urls, warned>>

\* the next-page control the site shows on the current page: a page that has
\* a successor carries an enabled control, the last page carries none or a
\* disabled one
PageControls ==
    IF site_page < listing_len
    THEN {ctl \in NextControls : ctl.present /\ ctl.disabled = None}
    ELSE {ctl \in NextControls : ~ctl.present \/ ctl.disabled # None}

\* lines 136-140: locate the next-page control and read its disabled attribute
WalkerNext ==
    /\ pc = "cards"
    /\ cardsLeft = 0
    /\ \/ \E e \in Outcomes \ {None} : WalkerFail("next", e)
       \/ \E ctl \in PageControls :
            /\ next_button' = Some(ctl)
            /\ pc' = "next"
            /\ UNCHANGED <<initiative_urls, page_num, cardsLeft, full_url, card,
                           site_page, listing_len, idx, data, results, site, h4_texts, listeners, exc,
                           main_error, sections, filesLeft, entry, last_request, captured_urls, warned>>

\* lines 139-153: break, or click the control and wait for the page; a click
\* on the control of the last page leaves the site on that page
WalkerActivate ==
    /\ pc = "next"
    /\ LET ctl == next_button[1]
       IN  IF ~ctl.present \/ IsDisabled(ctl)
           THEN WalkerReturn(None)
           ELSE \E click \in Outcomes, idle \in Outcomes, dom \in Outcomes :
                  LET r == IF click # None THEN click ELSE WaitForPageLoad(idle, dom)
                  IN  IF r # None
                      THEN WalkerReturn(Raised("click_next", r))
                      ELSE /\ page_num < MaxVisits
                           /\ page_num' = page_num + 1
                           /\ site_page' = IF site_page < listing_len
                                           THEN site_page + 1 ELSE site_page
                           /\ next_button' = None
                           /\ pc' = "listing"
                           /\ UNCHANGED <<initiative_urls, cardsLeft, full_url, card,
                                          listing_len, idx, data,
                                          results, site, h4_texts, listeners, exc, main_error, sections,
                                          filesLeft, entry, last_request, captured_urls, warned>>

\* ------------------------------------------------------ initiative extractor
\* lines 185-187: re.search(r'/initiatives/(\d+)', initiative_url)
InitiativeId(url) ==
    LET at == {i \in 1..Len(url) : /\ i + 3 <= Len(url)
                                   /\ SubSeq(url, i, i + 2) = InitiativesPath
                                   /\ url[i + 3] \in Digits}
    IN  IF at = {} THEN <<>> ELSE DigitRun(url, Min(at) + 3)

\* lines 164-187: the record as it stands at the first await
ScrapeInit(url) == [NewRecord(url) EXCEPT !.initiative_id = InitiativeId(url)]

\* "/public-consultation_en" ("P" is the word "public-consultation")
ConsultationSuffix == <<"/", "P", "_", "e", "n">>

\* ConsultationLink without the rstrip of line 206
ConsultationLinkNoRStrip(url) ==
    LET base == IF EndsWith(url, <<"_", "e", "n">>)
                THEN SubSeq(url, 1, Len(url) - 3)
                ELSE url
    IN  Some(base \o ConsultationSuffix)

\* lines 203-212: the link built from the overview URL (an Optional; the
\* string operations cannot raise on a str, so it is never None)
ConsultationLink(url) ==
    LET stripped == RStrip(url, "/")
        base == IF EndsWith(stripped, <<"_", "e", "n">>)
                THEN SubSeq(stripped, 1, Len(stripped) - 3)
                ELSE stripped
    IN  Some(base \o ConsultationSuffix)

\* ScrapeExcept re-raising what it caught
ScrapeExceptReraise(d, e) == [raised |-> TRUE, data |-> d]

\* ScrapeExcept leaving error_message as it was
ScrapeExceptNoMessage(d, e) ==
    [raised |-> FALSE, data |-> [d EXCEPT !.scrape_status = "error"]]

\* ScrapeExcept storing a fixed text in place of str(e)
ScrapeExceptFixedText(d, e) ==
    [raised |-> FALSE,
     data |-> [d EXCEPT !.scrape_status = "error", !.error_message = Some("error")]]

\* ScrapeExcept starting again from a fresh record
ScrapeExceptDiscard(d, e) ==
    [raised |-> FALSE,
     data |-> [NewRecord(d.initiative_url) EXCEPT !.scrape_status = "error",
                                                  !.error_message = Some(e[1])]]

\* lines 231-236: the extractor's handler
ScrapeExcept(d, e) ==
    [raised |-> FALSE,
     data |-> [d EXCEPT !.scrape_status = "error", !.error_message = Some(e[1])]]

\* lines 214-217
NoLinkError(d) ==
    [d EXCEPT !.scrape_status = "error",
              !.error_message = Some("Could not find public consultation link")]

\* line 229
MarkSuccess(d) == [d EXCEPT !.scrape_status = "success"]

\* texts read from the pages
NameTexts == {<<"N">>, <<" ", "N", " ">>, <<" ">>}
DdTexts == {None, Some(<<>>), Some(<<"T">>), Some(<<" ", "T">>)}
PeriodTexts == {None, Some(<<"D">>), Some(<<"D", " ">>)}

\* lines 196-198: name is the heading's text if there is a heading
SetName(d, heading) ==
    IF heading = None THEN d ELSE [d EXCEPT !.initiative_name = Strip(heading[1])]

\* lines 244-253: dd is the text of the definition paired with the first term
\* whose text contains "topic" (None: no such term, or no sibling element)
SetTopic(d, dd) ==
    IF dd = None \/ dd[1] = <<>> THEN d ELSE [d EXCEPT !.topic = Some(Strip(dd[1]))]

\* lines 259-261
SetPeriod(d, span) ==
    IF span = None THEN d ELSE [d EXCEPT !.consultation_period = Some(Strip(span[1]))]

\* an h4 text: whether its lower-cased text contains "feedback" and "received",
\* and the number re.search(r':\s*(\d+)', text) finds in it, if any
\* texts of h4 elements: "f" and "r" are the words "feedback" and
\* "received", "F" and "R" the same words with capital letters, "T" any
\* other word; the first is the text of the comment of line 272
FeedbackTexts ==
    { <<"T", " ", "f", " ", "r", ":", " ", "2", "4", "4">>,
      <<"f", " ", "r">>,
      <<"F", ":", " ", "2", "4", "4">>,
      <<"T">>,
      <<"F", " ", "R", ":", "1", "2">>,
      <<"f", " ", "r", ":", " ", "T", " ", "2">>,
      <<"f", ":", " ", "T", " ", "r", ":", " ", "2">>,
      <<"1", " ", "f", " ", "r", ":", " ", "4">>,
      <<"r", ":", "1", " ", "f", ":", "2">>,
      <<"r", " ", "f">> }

\* str.lower() on these texts
Lower(t) == [i \in 1..Len(t) |-> IF t[i] = "F" THEN "f" ELSE IF t[i] = "R" THEN "r" ELSE t[i]]

\* the first position after i that holds no whitespace (\s*)
RECURSIVE SkipSpaces(_, _)
SkipSpaces(t, i) == IF i <= Len(t) /\ t[i] = " " THEN SkipSpaces(t, i + 1) ELSE i

\* line 273: re.search(r':\s*(\d+)', text): group 1 of the leftmost match,
\* <<>> when there is no match
ColonNumber(t) ==
    LET at == {i \in 1..Len(t) : /\ t[i] = ":"
                                  /\ SkipSpaces(t, i + 1) <= Len(t)
                                  /\ t[SkipSpaces(t, i + 1)] \in Digits}
    IN  IF at = {} THEN <<>> ELSE DigitRun(t, SkipSpaces(t, Min(at) + 1))

\* line 275: int() of a run of decimal digits
DigitValue(c) == IF c = "1" THEN 1 ELSE IF c = "2" THEN 2 ELSE 4
RECURSIVE ToInt(_)
ToInt(ds) == IF ds = <<>> THEN 0 ELSE 10 * ToInt(SubSeq(ds, 1, Len(ds) - 1)) + DigitValue(ds[Len(ds)])

\* lines 270-275: what the loop reads of one h4 text
H4Of(t) ==
    [feedback |-> Contains(Lower(t), <<"f">>),
     received |-> Contains(Lower(t), <<"r">>),
     number |-> IF ColonNumber(t) = <<>> THEN None ELSE Some(ToInt(ColonNumber(t)))]

\* the h4 texts the listing-rich site shows
H4Texts ==
    { H4Of(<<"T", " ", "f", " ", "r", ":", " ", "2", "4", "4">>),
      H4Of(<<"f", " ", "r">>),
      H4Of(<<"F", ":", " ", "2", "4", "4">>),
      H4Of(<<"T">>) }

\* SetTotalFeedback going on to later h4 texts when the first has no number
SetTotalFeedbackAnyMatch(d, h4s) ==
    LET at == {i \in 1..Len(h4s) : h4s[i].feedback /\ h4s[i].received /\ h4s[i].number # None}
    IN  IF at = {} THEN d ELSE [d EXCEPT !.total_feedback = h4s[Min(at)].number]

\* lines 268-276: the first matching h4 decides, then break
SetTotalFeedback(d, h4s) ==
    LET at == {i \in 1..Len(h4s) : h4s[i].feedback /\ h4s[i].received}
    IN  IF at = {} THEN d
        ELSE LET h == h4s[Min(at)]
             IN  IF h.number = None THEN d ELSE [d EXCEPT !.total_feedback = h.number]

\* ------------------------------------------------------- download-link pass
H3Texts == {"Summary report", "Contributions to the consultation", "About this consultation"}

\* lines 289-290
SectionsOf(h3_texts) ==
    [summary |-> "Summary report" \in h3_texts,
     contributions |-> "Contributions to the consultation" \in h3_texts]

DownloadUrls == {"/api/download/1", "/api/download/2"}
RequestUrls == DownloadUrls \cup {"/other"}

\* the requests the site's consultation pages issue
SiteRequestUrls == OnSite(RequestUrls \ {"/api/download/2"}, RequestUrls)

\* the number of file entries the site's consultation pages show at most
SiteMaxFiles == OnSite(MaxFiles, MaxDocFiles)

\* a file title: which of the three words its lower-cased text contains
Titles == [contribution : BOOLEAN, annex : BOOLEAN, document : BOOLEAN]

\* lines 299-301: handle_request on the dict captured_urls, kept here as the
\* sequence of its keys in insertion order (assigning to a key that is
\* already present leaves its position unchanged)
HandleRequest(cap, url) ==
    IF url \in DownloadUrls /\ url \notin Range(cap) THEN Append(cap, url) ELSE cap

RECURSIVE Capture(_, _)
Capture(cap, reqs) ==
    IF reqs = <<>> THEN cap ELSE Capture(HandleRequest(cap, Head(reqs)), Tail(reqs))

\* line 321: list(captured_urls.values())[-1]
LatestUrl(cap) == cap[Len(cap)]

\* Classify with line 327 missing
ClassifyFlagOnly(d, secs, title, latest_url) ==
    IF secs.contributions /\ title.contribution /\ ~title.annex
    THEN [d EXCEPT !.has_contributions_zip = TRUE]
    ELSE IF secs.contributions /\ title.document /\ title.annex
    THEN [d EXCEPT !.has_documents_annexed = TRUE, !.documents_annexed_url = Some(latest_url)]
    ELSE IF secs.summary
    THEN [d EXCEPT !.has_summary_report = TRUE, !.summary_report_url = Some(latest_url)]
    ELSE d

\* Classify testing the summary section first
ClassifySummaryFirst(d, secs, title, url) ==
    IF secs.summary
    THEN [d EXCEPT !.has_summary_report = TRUE, !.summary_report_url = Some(url)]
    ELSE IF secs.contributions /\ title.contribution /\ ~title.annex
    THEN [d EXCEPT !.has_contributions_zip = TRUE, !.contributions_zip_url = Some(url)]
    ELSE IF secs.contributions /\ title.document /\ title.annex
    THEN [d EXCEPT !.has_documents_annexed = TRUE, !.documents_annexed_url = Some(url)]
    ELSE d

\* Classify without the test for "annex" of line 324
ClassifyNoAnnexTest(d, secs, title, url) ==
    IF secs.contributions /\ title.contribution
    THEN [d EXCEPT !.has_contributions_zip = TRUE, !.contributions_zip_url = Some(url)]
    ELSE IF secs.contributions /\ title.document /\ title.annex
    THEN [d EXCEPT !.has_documents_annexed = TRUE, !.documents_annexed_url = Some(url)]
    ELSE IF secs.summary
    THEN [d EXCEPT !.has_summary_report = TRUE, !.summary_report_url = Some(url)]
    ELSE d

\* Classify keeping the url a field already holds
ClassifyKeepFirst(d, secs, title, url) ==
    IF secs.contributions /\ title.contribution /\ ~title.annex
    THEN [d EXCEPT !.has_contributions_zip = TRUE,
                   !.contributions_zip_url = IF @ = None THEN Some(url) ELSE @]
    ELSE IF secs.contributions /\ title.document /\ title.annex
    THEN [d EXCEPT !.has_documents_annexed = TRUE,
                   !.documents_annexed_url = IF @ = None THEN Some(url) ELSE @]
    ELSE IF secs.summary
    THEN [d EXCEPT !.has_summary_report = TRUE,
                   !.summary_report_url = IF @ = None THEN Some(url) ELSE @]
    ELSE d

\* lines 324-337
Classify(d, secs, title, latest_url) ==
    IF secs.contributions /\ title.contribution /\ ~title.annex
    THEN [d EXCEPT !.has_contributions_zip = TRUE, !.contributions_zip_url = Some(latest_url)]
    ELSE IF secs.contributions /\ title.document /\ title.annex
    THEN [d EXCEPT !.has_documents_annexed = TRUE, !.documents_annexed_url = Some(latest_url)]
    ELSE IF secs.summary
    THEN [d EXCEPT !.has_summary_report = TRUE, !.summary_report_url = Some(latest_url)]
    ELSE d

\* lines 320-337 after a click that did not raise
AfterClick(d, secs, title, cap) ==
    IF cap = <<>> THEN d ELSE Classify(d, secs, title, LatestUrl(cap))

\* ------------------------------------------------------------ orchestrator
\* Collect dropping the records that ended in error
CollectSuccessOnly(res, d) == IF d.scrape_status = "error" THEN res ELSE Append(res, d)

\* line 86
Collect(res, d) == Append(res, d)

\* the loop staying on the URL it has just processed
SameIndex(i) == i

\* line 83: the for loop moves to the URL after the i-th
NextIndex(i) == i + 1

\* lines 83-85: take the next URL and enter scrape_consultation
NextInitiative ==
    /\ pc = "loop"
    /\ idx < Len(initiative_urls)
    /\ idx' = NextIndex(idx)
    /\ data' = ScrapeInit(initiative_urls[idx + 1])
    /\ exc' = None
    /\ pc' = "overview"
    /\ UNCHANGED <<initiative_urls, page_num, cardsLeft, full_url, card, next_button, site_page, listing_len, results, site, h4_texts, listeners, main_error,
                   sections, filesLeft, entry, last_request, captured_urls, warned>>

\* line 83: the loop is exhausted
LoopDone ==
    /\ pc = "loop"
    /\ idx = Len(initiative_urls)
    /\ exc' = None
    /\ pc' = "closing"
    /\ UNCHANGED <<initiative_urls, page_num, cardsLeft, full_url, card, next_button, site_page, listing_len, idx, data, results, site, h4_texts, listeners,
                   main_error, sections, filesLeft, entry, last_request, captured_urls, warned>>

\* lines 86-89: append the record returned by scrape_consultation
AppendResult ==
    /\ pc = "append"
    /\ results' = Collect(results, data)
    /\ data' = NoData
    /\ exc' = None
    /\ warned' = None
    /\ entry' = NoEntry
    /\ last_request' = None
    /\ pc' = "loop"
    /\ UNCHANGED <<initiative_urls, page_num, cardsLeft, full_url, card, next_button, site_page, listing_len, idx, main_error,
                   sections, filesLeft, captured_urls, site, h4_texts, listeners>>

\* lines 93-96: browser.close() in the finally clause, then the return
Close ==
    /\ pc = "closing"
    /\ \E r \in Outcomes : pc' = IF r = None THEN "returned" ELSE "raised"
    /\ UNCHANGED <<initiative_urls, page_num, cardsLeft, full_url, card, next_button, site_page, listing_len, idx, data, results, site, h4_texts, listeners, exc,
                   main_error, sections, filesLeft, entry, last_request, captured_urls, warned>>

\* ----------------------------------------------- initiative extractor actions
\* an exception e reaches the extractor's try block (lines 183, 231-236);
\* were the extractor to raise, the orchestrator's handler (lines 91-92)
\* would catch and leave the loop
ScrapeFail(at, e) ==
    LET h == ScrapeExcept(data, e)
    IN  /\ exc' = Raised(at, e)
        /\ IF h.raised
           THEN main_error' = e /\ pc' = "closing" /\ data' = NoData
           ELSE main_error' = main_error /\ pc' = "append" /\ data' = h.data
        /\ sections' = NoSections
        /\ filesLeft' = 0
        /\ captured_urls' = captured_urls
        /\ entry' = NoEntry
        /\ last_request' = None
        /\ UNCHANGED <<initiative_urls, page_num, cardsLeft, full_url, card, next_button, site_page, listing_len, idx, results, site, h4_texts, listeners>>

\* lines 189-192: stage 1, load the overview page
LoadOverview ==
    /\ pc = "overview"
    /\ \E r \in LoadOutcomes :
         IF r # None
         THEN ScrapeFail("overview", r) /\ warned' = warned
         ELSE /\ pc' = "name"
              /\ UNCHANGED <<initiative_urls, page_num, cardsLeft, full_url, card, next_button, site_page, listing_len, idx, data, results, site, h4_texts, listeners,
                             exc, main_error, sections, filesLeft, entry, last_request, captured_urls,
                             warned>>

\* lines 194-200: read the heading; an exception is caught and logged,
\* which leaves the name as it was
ReadName ==
    /\ pc = "name"
    /\ \/ data' = data
       \/ \E d \in {SetName(data, heading) :
                      heading \in OnSite({None} \cup {Some(t) : t \in NameTexts},
                                        {None})} :
            data' = d
    /\ pc' = "stage2"
    /\ UNCHANGED <<initiative_urls, page_num, cardsLeft, full_url, card, next_button, site_page, listing_len, idx, results, site, h4_texts, listeners, exc,
                   main_error, sections, filesLeft, entry, last_request, captured_urls, warned>>

\* lines 202-219: stage 2, construct the consultation URL
ConstructLink ==
    /\ pc = "stage2"
    /\ LET consultation_link == ConsultationLink(data.initiative_url)
       IN  IF consultation_link = None \/ consultation_link = Some(<<>>)
           THEN data' = NoLinkError(data) /\ pc' = "append"
           ELSE /\ data' = [data EXCEPT !.consultation_url = consultation_link[1]]
                /\ pc' = "detail"
    /\ UNCHANGED <<initiative_urls, page_num, cardsLeft, full_url, card, next_button, site_page, listing_len, idx, results, site, h4_texts, listeners, exc,
                   main_error, sections, filesLeft, entry, last_request, captured_urls, warned>>

\* lines 221-224: stage 3, load the consultation page
LoadDetail ==
    /\ pc = "detail"
    /\ \E r \in LoadOutcomes :
         IF r # None
         THEN ScrapeFail("detail", r) /\ warned' = warned
         ELSE /\ pc' = "topic"
              /\ UNCHANGED <<initiative_urls, page_num, cardsLeft, full_url, card, next_button, site_page, listing_len, idx, data, results, site, h4_texts, listeners,
                             exc, main_error, sections, filesLeft, entry, last_request, captured_urls,
                             warned>>

\* lines 254-255, 262-263, 277-278: the handler of a field's block logs a
\* warning and falls through
FieldExcept(e) == [raised |-> FALSE]

\* an exception e raised inside the block of the field extracted at pc
FieldFail(at, to, e) ==
    IF FieldExcept(e).raised
    THEN ScrapeFail(at, e) /\ warned' = warned
    ELSE /\ warned' = e
         /\ pc' = to
         /\ UNCHANGED <<initiative_urls, page_num, cardsLeft, full_url, card, next_button, site_page, listing_len, idx, data, results, site, h4_texts, listeners,
                        exc, main_error, sections, filesLeft, entry, last_request, captured_urls>>

\* a field's block ran to its end and left the record as d
FieldDone(to, d) ==
    /\ data' = d
    /\ pc' = to
    /\ UNCHANGED <<initiative_urls, page_num, cardsLeft, full_url, card, next_button, site_page, listing_len, idx, results, site, h4_texts, listeners, exc,
                   main_error, sections, filesLeft, entry, last_request, captured_urls, warned>>

\* lines 241-255
ExtractTopic ==
    /\ pc = "topic"
    /\ \/ \E e \in Outcomes \ {None} : FieldFail("topic", "period", e)
       \/ \E d \in {SetTopic(data, dd) : dd \in OnSite(DdTexts, {None})} : FieldDone("period", d)

\* lines 257-263
ExtractPeriod ==
    /\ pc = "period"
    /\ \/ \E e \in Outcomes \ {None} : FieldFail("period", "feedback", e)
       \/ \E d \in {SetPeriod(data, span) : span \in OnSite(PeriodTexts, {None})} :
            FieldDone("feedback", d)

\* line 268: what the h4 elements of the page read as
PageH4s ==
    IF h4_texts = None
    THEN OnSite(SeqsUpTo(H4Texts, MaxH4), {<<>>})
    ELSE {[i \in 1..Len(h4_texts[1]) |-> H4Of(h4_texts[1][i])]}

\* lines 265-278
ExtractFeedback ==
    /\ pc = "feedback"
    /\ \/ \E e \in Outcomes \ {None} : FieldFail("feedback", "outcome", e)
       \/ \E d \in {SetTotalFeedback(data, h4s) : h4s \in PageH4s} :
            FieldDone("outcome", d)

\* extract_consultation_data returns, line 229 marks the record and line 236
\* returns it; the log and the listeners are left to the caller
ExtractReturn(d) ==
    /\ data' = MarkSuccess(d)
    /\ pc' = "append"
    /\ sections' = NoSections
    /\ filesLeft' = 0
    /\ UNCHANGED <<initiative_urls, page_num, cardsLeft, full_url, card, next_button,
                   site_page, listing_len, idx, results, site, h4_texts, exc, main_error>>

\* OutcomeExcept re-raising what it caught
OutcomeExceptReraise(e) == [raised |-> TRUE]

\* lines 345-346: the handler of the outcome block logs a warning
OutcomeExcept(e) == [raised |-> FALSE]

\* the locals of an iteration as the state keeps them
Track(en) == OnSite(NoEntry, en)

\* an iteration that ended without reading the log
Skipped(how) == [NoEntry EXCEPT !.outcome = how]

\* an exception e raised inside the outcome block, outside the click's try,
\* while the iteration en was running
OutcomeFail(at, e, en) ==
    IF OutcomeExcept(e).raised
    THEN ScrapeFail(at, e) /\ warned' = warned
    ELSE /\ ExtractReturn(data)
         /\ warned' = e
         /\ entry' = Track(en)
         /\ UNCHANGED <<captured_urls, last_request, listeners>>

\* ClickExcept re-raising what it caught
ClickExceptReraise(e) == [raised |-> TRUE]

\* lines 339-340: the handler of a failed click logs a warning
ClickExcept(e) == [raised |-> FALSE]

\* the log keeping what the log of the pass before held
StaleLog(prev) == prev

\* line 296: the log of a pass starts empty; prev is the log of the pass before
FreshLog(prev) == <<>>

\* line 303: page.on adds a listener to the n the page has
Subscribe(n) == n + 1

\* line 343: page.remove_listener
Unsubscribe(n) == n - 1

\* lines 281-303: read the h3 headings, query the files and subscribe; with
\* no file entry the loop of line 305 is empty, the listener is removed and
\* the function returns
ScanSections ==
    /\ pc = "outcome"
    /\ \/ \E e \in Outcomes \ {None} : OutcomeFail("sections", e, NoEntry)
       \/ \E secs \in {SectionsOf(h3_texts) : h3_texts \in SUBSET H3Texts} :
            \/ /\ ExtractReturn(data)
               /\ captured_urls' = FreshLog(captured_urls)
               /\ listeners' = Unsubscribe(Subscribe(listeners))
               /\ UNCHANGED <<warned, entry, last_request>>
            \/ \E n \in 1..SiteMaxFiles :
                 /\ sections' = secs
                 /\ filesLeft' = n
                 /\ captured_urls' = FreshLog(captured_urls)
                 /\ listeners' = Subscribe(listeners)
                 /\ entry' = NoEntry
                 /\ last_request' = None
                 /\ pc' = "files"
                 /\ UNCHANGED <<initiative_urls, page_num, cardsLeft, full_url, card,
                                next_button, site_page, listing_len, idx, data,
                                results, site, h4_texts, exc, main_error, warned>>

\* the matching request observed last by handle_request (lines 299-301)
\* once the requests reqs have been issued, last being the one before
RECURSIVE LastMatching(_, _)
LastMatching(last, reqs) ==
    IF reqs = <<>> THEN last
    ELSE LastMatching(IF Head(reqs) \in DownloadUrls THEN Some(Head(reqs)) ELSE last, Tail(reqs))

\* the log and the request observed last after the requests reqs, and
\* whether one of them matched
Observe(cap, last, reqs) ==
    [cap |-> Capture(cap, reqs), last |-> LastMatching(last, reqs),
     matched |-> OnSite(FALSE, \E i \in 1..Len(reqs) : reqs[i] \in DownloadUrls)]

\* lines 324, 329, 334: the branch of the classification taken
Branch(secs, title) ==
    IF secs.contributions /\ title.contribution /\ ~title.annex THEN "contributions_zip"
    ELSE IF secs.contributions /\ title.document /\ title.annex THEN "documents_annexed"
    ELSE IF secs.summary THEN "summary_report"
    ELSE "none"

\* the url field of the record d that the branch b writes
UrlOf(d, b) ==
    IF b = "contributions_zip" THEN d.contributions_zip_url
    ELSE IF b = "documents_annexed" THEN d.documents_annexed_url
    ELSE IF b = "summary_report" THEN d.summary_report_url
    ELSE None

\* lines 316-337: the click returned; the record and the locals after it
Clicked(d, secs, title, cap) ==
    [data |-> AfterClick(d, secs, title, cap),
     entry |-> Track([outcome |-> "clicked",
                      title |-> Some(title),
                      latest_url |-> IF cap = <<>> THEN None ELSE Some(LatestUrl(cap)),
                      replaced |-> IF cap = <<>> THEN None ELSE UrlOf(d, Branch(secs, title)),
                      observed |-> FALSE])]

\* the iteration over one file entry ends with the record as d, the log and
\* the request observed last as o, the locals as en and w the last exception
\* logged; after the last entry the listener is removed (line 343) and the
\* function returns
FileDone(d, o, w, en) ==
    /\ warned' = w
    /\ entry' = Track([en EXCEPT !.observed = o.matched])
    /\ last_request' = o.last
    /\ captured_urls' = o.cap
    /\ IF filesLeft = 1
       THEN ExtractReturn(d) /\ listeners' = Unsubscribe(listeners)
       ELSE /\ data' = d
            /\ filesLeft' = filesLeft - 1
            /\ UNCHANGED <<pc, initiative_urls, page_num, cardsLeft, full_url, card,
                           next_button, site_page, listing_len, idx, results, site, h4_texts, listeners,
                           exc, main_error, sections>>

\* lines 305-340: one iteration of the loop over the file entries; reqs are
\* the requests the page issues while the iteration awaits; the entry has no
\* title (line 307) or no link (line 313), the click raises (line 339) or
\* returns (line 317)
ProcessFile ==
    /\ pc = "files"
    /\ filesLeft > 0
    /\ \/ \E e \in Outcomes \ {None} : OutcomeFail("file", e, Skipped("raised"))
       \/ \E o \in {Observe(captured_urls, last_request, reqs) :
                      reqs \in SeqsUpTo(SiteRequestUrls, MaxReq)} :
            \/ \E how \in {"no_title", "no_link"} : FileDone(data, o, warned, Skipped(how))
            \/ \E e \in Outcomes \ {None} :
                 IF ClickExcept(e).raised
                 THEN OutcomeFail("click", e, Skipped("click_failed"))
                 ELSE FileDone(data, o, e, Skipped("click_failed"))
            \/ \E c \in {Clicked(data, sections, title, o.cap) : title \in Titles} :
                 FileDone(c.data, o, warned, c.entry)

Next ==
    \/ WalkerOpen \/ WalkerQueryCards \/ WalkerCard \/ WalkerNext \/ WalkerActivate
    \/ NextInitiative \/ LoopDone \/ AppendResult \/ Close
    \/ LoadOverview \/ ReadName \/ ConstructLink \/ LoadDetail
    \/ ExtractTopic \/ ExtractPeriod \/ ExtractFeedback
    \/ ScanSections \/ ProcessFile

Spec == Init /\ [][Next]_vars

\* the crawl of the document-rich site
SpecDocs == InitDocs /\ [][Next]_vars

\* the record of an initiative whose consultation page has been loaded
Loaded ==
    LET url == Normalize(<<"/", "I", "/", "1", "_", "e", "n">>)
    IN  [ScrapeInit(url) EXCEPT !.consultation_url = ConsultationLink(url)[1]]

\* the extractor is about to read the h4 texts of a consultation page
InitFeedback ==
    \E ts \in SeqsUpTo(FeedbackTexts, MaxH4) : Entered("feedback", Loaded, Some(ts))

\* the total-feedback block on every page of up to MaxH4 h4 texts
SpecFeedback == InitFeedback /\ [][ExtractFeedback]_vars

\* initiative URLs as the walker may hand them over: an initiative path,
\* with or without "_en", followed by up to MaxSuffix more characters
LinkUrls ==
    {base \o suffix :
        base \in {Host \o <<"/", "I", "/", "1">>, Host \o <<"/", "I", "/", "1", "_", "e", "n">>},
        suffix \in SeqsUpTo({"/", "_", "e", "n"}, MaxSuffix)}

\* the extractor is about to construct the consultation link of a URL
InitLink == \E url \in LinkUrls : Entered("stage2", ScrapeInit(url), None)

\* lines 202-224: construct the link, then load the page
NextLink == ConstructLink \/ LoadDetail

\* stages 2 and 3 of the extractor on every URL of LinkUrls
SpecLink == InitLink /\ [][NextLink]_vars

\* ================================================================== claims
\* the records scrape_consultation has returned so far
Returned == {results[i] : i \in 1..Len(results)} \cup (IF pc = "append" THEN {data} ELSE {})

U1 == <<"H", "/", "I", "/", "1", "_", "e", "n">>
U2 == <<"H", "/", "I", "/", "a", "_", "e", "n">>

\* C1: when scrape_all_consultations returns, results holds exactly one
\* record per discovered URL and the i-th record is that of the i-th URL.
C1_OneRecordPerUrlInOrder ==
    pc = "returned" =>
        /\ Len(results) = Len(initiative_urls)
        /\ \A i \in 1..Len(results) : results[i].initiative_url = initiative_urls[i]

\* a run over two URLs whose first extraction failed and second succeeded
C1_Witness ==
    /\ pc = "returned"
    /\ Len(results) = 2
    /\ results[1].scrape_status = "error"
    /\ results[2].scrape_status = "success"

\* C2: every returned record with scrape_status = "success" has a non-empty
\* initiative_id and a non-empty initiative_url.
C2_SuccessHasIdAndUrl ==
    \A r \in Returned :
        r.scrape_status = "success" => r.initiative_id # <<>> /\ r.initiative_url # <<>>

\* each artifact kind's url is set exactly when its presence flag is true
UrlIffFlag(r) ==
    /\ (r.summary_report_url # None) <=> r.has_summary_report
    /\ (r.contributions_zip_url # None) <=> r.has_contributions_zip
    /\ (r.documents_annexed_url # None) <=> r.has_documents_annexed

\* C3: in the record under extraction, at every await of the extraction, and
\* in every returned record, each artifact kind's url is set exactly when
\* its presence flag is true.
C3_UrlIffPresent == UrlIffFlag(data) /\ \A r \in Returned : UrlIffFlag(r)

\* a returned record that carries a contributions ZIP
C3_Witness ==
    \E r \in Returned : r.has_contributions_zip /\ r.contributions_zip_url = Some("/api/download/1")

\* C4 as stated: every returned record with scrape_status = "error" has a
\* non-empty error_message.
C4_ErrorMessageNonEmpty ==
    \A r \in Returned :
        r.scrape_status = "error" => r.error_message # None /\ r.error_message # Some("")

\* C4 as amended: every returned record with scrape_status = "error" has
\* error_message set (not None); it is the text str(e) of the exception the
\* extractor's handler caught, or the fixed text of line 216.
C4_ErrorMessageSet ==
    /\ \A r \in Returned : r.scrape_status = "error" => r.error_message # None
    /\ (pc = "append" /\ data.scrape_status = "error") =>
          \/ exc # None /\ data.error_message = Some(exc[1].msg)
          \/ data.error_message = Some("Could not find public consultation link")

\* an error record returned for an exception whose text is empty
C4_Witness ==
    /\ pc = "append"
    /\ data.scrape_status = "error"
    /\ exc # None /\ exc[1].msg = ""
    /\ data.error_message = Some("")

\* C5: every returned record with scrape_status = "error" has the artifact
\* fields at their defaults and topic, consultation_period and
\* total_feedback unset.
C5_ErrorHasNoDetailData ==
    \A r \in Returned :
        r.scrape_status = "error" =>
            /\ ~r.has_summary_report /\ r.summary_report_url = None
            /\ ~r.has_contributions_zip /\ r.contributions_zip_url = None
            /\ ~r.has_documents_annexed /\ r.documents_annexed_url = None
            /\ r.topic = None /\ r.consultation_period = None /\ r.total_feedback = None

\* an error record returned after the consultation page failed to load
C5_Witness ==
    /\ pc = "loop"
    /\ \E i \in 1..Len(results) :
         results[i].scrape_status = "error" /\ results[i].consultation_url # <<>>

\* C6: scrape_consultation raises nothing to the orchestrator and every
\* record it returns has scrape_status "success" or "error".
C6_ExtractNeverFailsOutward ==
    /\ main_error = None
    /\ \A r \in Returned : r.scrape_status \in {"success", "error"}

\* a record returned after the overview page failed to load
C6_Witness ==
    /\ pc = "append"
    /\ exc # None /\ exc[1].at = "overview"
    /\ data.scrape_status = "error"

\* C7 as stated: a record returned after an exception in stage 3, either
\* while loading the consultation page or inside field extraction, has
\* scrape_status = "error" and that exception's text as error_message.
C7_AnyStage3ExceptionDowngrades ==
    pc = "append" =>
        /\ (exc # None /\ exc[1].at = "detail") =>
              data.scrape_status = "error" /\ data.error_message = Some(exc[1].msg)
        /\ warned # None =>
              data.scrape_status = "error" /\ data.error_message = warned

\* C7 as amended: an exception raised while loading the consultation page
\* downgrades the record to error with that exception's text; an exception
\* raised inside field extraction is logged there and the record is
\* returned with scrape_status = "success".
C7_LoadExceptionDowngrades ==
    pc = "append" =>
        /\ (exc # None /\ exc[1].at = "detail") =>
              data.scrape_status = "error" /\ data.error_message = Some(exc[1].msg)
        /\ warned # None => data.scrape_status = "success" /\ data.error_message = None

\* a record downgraded by a failed load of the consultation page
C7_Witness ==
    /\ pc = "append"
    /\ exc # None /\ exc[1].at = "detail"
    /\ data.error_message = Some("Timeout")

\* a step that downgrades the record changes nothing but the two fields
C8_Downgrade ==
    (data.scrape_status = "pending" /\ data'.scrape_status = "error") =>
        data' = [data EXCEPT !.scrape_status = "error",
                             !.error_message = data'.error_message]

\* C8: the step that downgrades a record to error changes scrape_status and
\* error_message only, and the error record returned when the consultation
\* page fails to load carries the id and the consultation URL derived from
\* its initiative URL.
C8_ErrorKeepsFields ==
    /\ [][C8_Downgrade]_vars
    /\ [](pc = "append" /\ exc # None /\ exc[1].at = "detail" =>
            /\ data.initiative_id = InitiativeId(data.initiative_url)
            /\ Some(data.consultation_url) = ConsultationLink(data.initiative_url))

\* an error record that carries an id, a name and the consultation URL
C8_Witness ==
    /\ pc = "append"
    /\ data.scrape_status = "error"
    /\ data.initiative_id = <<"1">>
    /\ data.initiative_name = <<"N">>
    /\ data.consultation_url = <<"H", "/", "I", "/", "1", "/", "P", "_", "e", "n">>

NoDuplicates(s) == \A i, j \in 1..Len(s) : s[i] = s[j] => i = j

IsPrefix(s, t) == Len(s) <= Len(t) /\ SubSeq(t, 1, Len(s)) = s

\* C9: initiative_urls never holds the same URL twice, every normalized URL
\* the walker has computed is in it, and the walker only ever appends to it,
\* so a URL met again keeps its first position.
C9_UniqueFirstSeen ==
    /\ [](NoDuplicates(initiative_urls))
    /\ [](full_url # None => full_url[1] \in Range(initiative_urls))
    /\ [][IsPrefix(initiative_urls, initiative_urls')]_vars

\* the walker has met U1 again after U2 was appended behind it
C9_Witness ==
    /\ pc = "cards"
    /\ initiative_urls = <<U1, U2>>
    /\ full_url = Some(U1)

\* a walker step in which a page operation raises
C10_FailureStep ==
    (pc \in {"open", "listing", "cards", "next"} /\ exc' # None) =>
        /\ pc' = "loop"
        /\ main_error' = None
        /\ initiative_urls' = initiative_urls

\* C10: a step of the walker in which a page operation raises ends the
\* walker: control is back in the orchestrator's loop, nothing was raised to
\* it and initiative_urls is what had been accumulated.
C10_WalkerFailureReturnsAccumulated == [][C10_FailureStep]_vars

\* the walker returned one URL after a failure while reading a card
C10_Witness ==
    /\ pc = "loop"
    /\ idx = 0
    /\ exc # None /\ exc[1].at = "anchor"
    /\ Len(initiative_urls) = 1


\* C11: when the next-page control is absent, or carries the disabled
\* attribute whatever its value (the empty string included), the walker stops
\* without activating the control: it returns with no click attempted
C11_AbsentOrDisabledStops ==
    [][(pc = "next" /\ (~next_button[1].present \/ next_button[1].disabled # None))
         => (pc' = "loop" /\ exc' = None /\ initiative_urls' = initiative_urls)]_vars

\* C12: on a finite chain of pages with no page operation failing the walker
\* visits every page exactly once in order: the number of pages it has
\* extracted is the position of the site in the chain, and it returns
\* without a failure only from the last page
C12_EveryPageOnce ==
    /\ [](pc \in {"listing", "cards", "next"} => page_num = site_page)
    /\ [][(pc = "next" /\ pc' = "loop" /\ exc' = None) => site_page = listing_len]_vars

\* C13: every anchor of a card that matches the initiative pattern is
\* extracted: after a card is processed the normalized URL of each of its
\* anchors is in the accumulated list
C13_EveryAnchorExtracted ==
    card # None => \A i \in 1..Len(card[1]) : Normalize(card[1][i]) \in Range(initiative_urls)


\* the artifact fields of a record
Artifacts(d) ==
    <<d.has_summary_report, d.summary_report_url, d.has_contributions_zip,
      d.contributions_zip_url, d.has_documents_annexed, d.documents_annexed_url>>

\* a step of the file loop in which the click returned and the log gave a url
ClickedWithUrl == pc = "files" /\ entry'.outcome = "clicked" /\ entry'.latest_url # None

\* the kind the priority rule gives for a title t under the sections secs
RuleKind(secs, t) ==
    CASE secs.contributions /\ t.contribution /\ ~t.annex -> "contributions_zip"
      [] secs.contributions /\ ~(t.contribution /\ ~t.annex) /\ t.document /\ t.annex
           -> "documents_annexed"
      [] ~(secs.contributions /\ t.contribution /\ ~t.annex)
           /\ ~(secs.contributions /\ t.document /\ t.annex) /\ secs.summary
           -> "summary_report"
      [] OTHER -> "none"

\* the artifact fields of d once the kind k has been written with url u
RuleWrites(d, k, u) ==
    <<IF k = "summary_report" THEN TRUE ELSE d.has_summary_report,
      IF k = "summary_report" THEN u ELSE d.summary_report_url,
      IF k = "contributions_zip" THEN TRUE ELSE d.has_contributions_zip,
      IF k = "contributions_zip" THEN u ELSE d.contributions_zip_url,
      IF k = "documents_annexed" THEN TRUE ELSE d.has_documents_annexed,
      IF k = "documents_annexed" THEN u ELSE d.documents_annexed_url>>

\* C14: for every file entry whose activation yielded a URL the kind written
\* is the one of the priority rule (contributions-ZIP, else documents-annexed,
\* else summary-report, else nothing), written with that URL, and the fields
\* of every other kind are left as they were
C14_PriorityRule ==
    [][ClickedWithUrl =>
         Artifacts(data') = RuleWrites(data, RuleKind(sections, entry'.title[1]),
                                       entry'.latest_url)]_vars

\* an entry whose title has all three words was recorded as documents annexed
C14_Witness ==
    /\ entry.outcome = "clicked"
    /\ entry.latest_url # None
    /\ entry.title = Some([contribution |-> TRUE, annex |-> TRUE, document |-> TRUE])
    /\ data.documents_annexed_url = entry.latest_url
    /\ ~data.has_contributions_zip
    /\ ~data.has_summary_report

\* a step of the file loop for an entry whose title contains "contribution"
\* and "annex" on a page where the contributions section was observed
ContributionAnnexStep ==
    /\ ClickedWithUrl
    /\ sections.contributions
    /\ entry'.title[1].contribution
    /\ entry'.title[1].annex

\* C15 as stated: an entry whose title contains both "contribution" and
\* "annex", under an observed contributions section, records no artifact of
\* any kind, whatever else the title contains and whether or not a summary
\* section was observed
C15_ContributionAnnexIgnored ==
    [][ContributionAnnexStep => Artifacts(data') = Artifacts(data)]_vars

\* C15 amended: such an entry is never recorded as the contributions ZIP; it
\* is recorded as documents annexed when its title also contains "document",
\* else as the summary report when a summary section was observed, and
\* records nothing only when neither holds
C15_ContributionAnnexNeverZip ==
    [][ContributionAnnexStep =>
         /\ data'.has_contributions_zip = data.has_contributions_zip
         /\ data'.contributions_zip_url = data.contributions_zip_url
         /\ entry'.title[1].document =>
              /\ data'.documents_annexed_url = entry'.latest_url
              /\ data'.summary_report_url = data.summary_report_url
         /\ (~entry'.title[1].document /\ sections.summary) =>
              /\ data'.summary_report_url = entry'.latest_url
              /\ data'.documents_annexed_url = data.documents_annexed_url
         /\ (~entry'.title[1].document /\ ~sections.summary) =>
              Artifacts(data') = Artifacts(data)]_vars

\* an entry titled with "contribution" and "annex" was recorded as the
\* summary report
C15_Witness ==
    /\ pc = "files"
    /\ sections.contributions
    /\ sections.summary
    /\ entry.outcome = "clicked"
    /\ entry.latest_url # None
    /\ entry.title = Some([contribution |-> TRUE, annex |-> TRUE, document |-> FALSE])
    /\ data.summary_report_url = entry.latest_url
    /\ ~data.has_contributions_zip
    /\ ~data.has_documents_annexed

\* C16: the url attributed to an entry's activation is the url of the
\* matching request observed most recently when the log is read, also when
\* that request targets a url observed earlier in the same pass
C16_LatestIsMostRecent ==
    (entry.outcome = "clicked" /\ last_request # None) => entry.latest_url = last_request

\* C17: each kind holds at most one url, and an entry that classifies to a
\* kind leaves its own url in that kind's field whatever the field held
\* before (the last writer wins)
C17_LastWriterWins ==
    /\ [](\A k \in {"summary_report", "contributions_zip", "documents_annexed"} :
            Len(UrlOf(data, k)) <= 1)
    /\ [][ClickedWithUrl =>
            LET k == RuleKind(sections, entry'.title[1])
            IN  k # "none" =>
                  /\ UrlOf(data', k) = entry'.latest_url
                  /\ entry'.replaced = UrlOf(data, k)]_vars

\* a second entry classified as the contributions ZIP replaced the url of
\* the first by its own
C17_Witness ==
    /\ entry.outcome = "clicked"
    /\ entry.replaced # None
    /\ entry.latest_url # None
    /\ entry.replaced # entry.latest_url
    /\ data.contributions_zip_url = entry.latest_url
    /\ data.summary_report_url = None
    /\ data.documents_annexed_url = None

\* C18: an entry without title or link, or whose click raises, is skipped
\* alone: the artifacts recorded before are kept, the loop goes on with the
\* entries after it, and after the last entry the record is a success
C18_ActivationFailureSkipsEntry ==
    [][(pc = "files" /\ entry'.outcome \in {"no_title", "no_link", "click_failed"}) =>
         /\ Artifacts(data') = Artifacts(data)
         /\ filesLeft > 1 => (pc' = "files" /\ filesLeft' = filesLeft - 1)
         /\ filesLeft = 1 => (pc' = "append" /\ data'.scrape_status = "success")]_vars

\* a click failed after an artifact had been recorded and with an entry
\* still to be processed
C18_Witness ==
    /\ pc = "files"
    /\ filesLeft > 0
    /\ entry.outcome = "click_failed"
    /\ warned # None
    /\ data.has_summary_report


\* C19: the log is scoped to one initiative: a url stored in the record of
\* an initiative is the url of a request observed during the document pass
\* of that same initiative, never one captured while another was processed
\* (on the listing-rich site every matching request targets one endpoint, so
\* the url stored is that of the request observed last in this pass)
C19_LogScopedToInitiative ==
    [][pc = "files" =>
         \A k \in {"summary_report", "contributions_zip", "documents_annexed"} :
            UrlOf(data', k) # UrlOf(data, k) =>
               (last_request' # None /\ UrlOf(data', k) = last_request')]_vars

\* the pass of the second initiative runs on an empty log after the pass of
\* the first has captured a url and stored it
C19_Witness ==
    /\ pc = "files"
    /\ idx = 2
    /\ Len(results) = 1
    /\ results[1].summary_report_url # None
    /\ captured_urls = <<>>
    /\ last_request = None

\* C20: whenever extract_consultation_data has returned, on the normal path
\* and on every failure path inside the document pass, the listener it
\* registered is removed: outside the pass no listener is subscribed
C20_ListenerAlwaysRemoved == pc # "files" => listeners = 0


\* C21: no retries: the extractor is entered once for each discovered URL,
\* each time with the URL after the one before (an error record is appended
\* like any other and its URL is not taken again); within one extraction the
\* overview page and the detail page are each loaded from one place only,
\* reached once, and each step of the file loop moves on to the next entry
C21_NoRetries ==
    /\ [][pc' = "overview" =>
            /\ pc = "loop"
            /\ idx' = idx + 1
            /\ data'.initiative_url = initiative_urls[idx + 1]]_vars
    /\ [][pc = "overview" => (pc' \in {"name", "append"} /\ idx' = idx)]_vars
    /\ [][pc' = "detail" => (pc = "stage2" /\ idx' = idx)]_vars
    /\ [][pc = "detail" => (pc' \in {"topic", "append"} /\ idx' = idx)]_vars
    /\ [][(pc = "files" /\ pc' = "files") => filesLeft' = filesLeft - 1]_vars
    /\ [][pc = "append" =>
            (pc' = "loop" /\ idx' = idx /\ Len(results') = Len(results) + 1)]_vars
    /\ [](pc = "returned" =>
            (idx = Len(initiative_urls) /\ Len(results) = Len(initiative_urls)))

\* the URL after one whose record is an error is being extracted
C21_Witness ==
    /\ pc = "detail"
    /\ idx = 2
    /\ Len(results) = 1
    /\ results[1].scrape_status = "error"
    /\ results[1].initiative_url = initiative_urls[1]
    /\ data.initiative_url = initiative_urls[2]


\* the first integer that follows a colon in the text t (the colon, then
\* whitespace if any, then the digits), unset when t has none
ClaimNumber(t) ==
    LET starts == {j \in 1..Len(t) :
                     /\ t[j] \in Digits
                     /\ \E i \in 1..(j - 1) : t[i] = ":" /\ \A k \in (i + 1)..(j - 1) : t[k] = " "}
    IN  IF starts = {} THEN None
        ELSE LET j == Min(starts)
                 ends == {m \in j..Len(t) : \A k \in j..m : t[k] \in Digits}
                 last == CHOOSE m \in ends : \A n \in ends : n <= m
             IN  Some(ToInt(SubSeq(t, j, last)))

\* what the subheadings ts, in page order, decide for total_feedback
ClaimFeedback(ts) ==
    LET matching == {i \in 1..Len(ts) : Contains(Lower(ts[i]), <<"f">>)
                                        /\ Contains(Lower(ts[i]), <<"r">>)}
    IN  IF matching = {} THEN None ELSE ClaimNumber(ts[Min(matching)])

\* C22: total_feedback is decided by the first subheading, in page order,
\* that contains both "feedback" and "received" whatever the case: it is the
\* first integer following a colon in that text and stays unset when no
\* subheading matches or that one has no such integer; later subheadings are
\* not consulted; the text of the example gives 244
C22_FirstMatchDecides ==
    (pc = "outcome" /\ h4_texts # None) =>
        /\ warned = None => data.total_feedback = ClaimFeedback(h4_texts[1])
        /\ warned # None => data.total_feedback = None
        /\ (warned = None
            /\ h4_texts[1] = << <<"T", " ", "f", " ", "r", ":", " ", "2", "4", "4">> >>)
             => data.total_feedback = Some(244)

\* the first matching subheading has no number and the one after it has:
\* the field stays unset
C22_Witness ==
    /\ pc = "outcome"
    /\ warned = None
    /\ h4_texts = Some(<< <<"f", " ", "r">>,
                          <<"T", " ", "f", " ", "r", ":", " ", "2", "4", "4">> >>)
    /\ data.total_feedback = None


\* url with the slashes at its end removed
TrimSlashes(url) ==
    CHOOSE b \in {SubSeq(url, 1, n) : n \in 0..Len(url)} :
        /\ b = <<>> \/ b[Len(b)] # "/"
        /\ \A i \in (Len(b) + 1)..Len(url) : url[i] = "/"

\* the consultation-detail URL of the initiative URL url: trailing slashes
\* and then one trailing "_en" stripped, "/public-consultation_en" appended
ClaimLink(url) ==
    LET b == TrimSlashes(url)
        n == Len(b)
        stem == IF n >= 3 /\ b[n - 2] = "_" /\ b[n - 1] = "e" /\ b[n] = "n"
                THEN SubSeq(b, 1, n - 3) ELSE b
    IN  stem \o <<"/", "P", "_", "e", "n">>

\* C23: the consultation-detail URL is that function of the initiative URL
\* alone: every record that reached stage 3 holds it, and a construction
\* that yields no URL ends the record as an error with a message without
\* the detail page being loaded
C23_LinkFromUrl ==
    /\ []((pc \in {"detail", "topic"} \/ (pc = "append" /\ exc # None))
            => data.consultation_url = ClaimLink(data.initiative_url))
    /\ [][pc = "stage2" =>
            \/ pc' = "detail" /\ data'.consultation_url # <<>>
            \/ /\ pc' = "append"
               /\ data'.consultation_url = <<>>
               /\ data'.scrape_status = "error"
               /\ data'.error_message # None
               /\ data'.error_message # Some("")]_vars

\* the consultation page of a URL ending in "_en/" has been loaded
C23_Witness ==
    /\ pc = "topic"
    /\ data.initiative_url = <<"H", "/", "I", "/", "1", "_", "e", "n", "/">>
    /\ data.consultation_url = <<"H", "/", "I", "/", "1", "/", "P", "_", "e", "n">>


\* C24: a url recorded for an entry comes from a request observed during
\* that entry's own activation: an entry for which no matching request was
\* observed between its click and the read records no artifact, and is not
\* given the url captured for an earlier entry
C24_UrlFromOwnActivation ==
    [][(pc = "files" /\ entry'.outcome = "clicked" /\ ~entry'.observed)
         => Artifacts(data') = Artifacts(data)]_vars

====
